---- MODULE Spec2Model ----
(***************************************************************************)
(* Model of src/main.py: a website health monitor made of four asyncio     *)
(* coroutines on one event loop.                                           *)
(*   Producer  (Poller)  probes a URL and puts a JSON string on a queue;   *)
(*   Consumer  (Relay)   gets from the queue and sends to a Kafka topic;   *)
(*   KConsumer (Sink)    reads a Kafka topic and inserts rows in Postgres; *)
(*   main      (Supervisor) builds the collaborators, creates the three    *)
(*             tasks, awaits the Producer and tears everything down.       *)
(* One action is one run of a coroutine between two suspension points      *)
(* (asyncio runs such a stretch without interleaving).                     *)
(***************************************************************************)
EXTENDS Integers, Sequences, FiniteSets, TLC

(* ------------------------------- bounds -------------------------------- *)
\* number of probes the Producer issues before the model stops it
MaxProbes == 2
\* number of messages other publishers put on the Sink's topic
MaxForeign == 1
\* number of database faults the environment injects
MaxDbFaults == 1
\* number of times the process is started again after it has ended
MaxRestarts == 1

(* --------------------------- program constants ------------------------- *)
\* asyncio.Queue() is built without maxsize: 0 means "no limit"
q_maxsize == 0
\* the topic name the Consumer sends to
SendTopic == "exercise1"
\* the values config["kafka_topic"] may take
TopicNames == {"exercise1", "health"}
\* the responses the probed site may give, and the probe durations measured
HttpResponses == {[status |-> 200, text |-> "ok"], [status |-> 503, text |-> "down"]}
Latencies == {1}
Tasks == {"Producer", "Consumer", "KConsumer"}
\* the keys the Producer writes and the KConsumer reads, in insertion order
HealthKeys == <<"timestamp", "response_data", "response_status", "response_time">>

VARIABLES
    mainPc,         \* where main() is: start, gather, stop_kproducer, stop_kconsumer,
                    \* close_cur, close_con, done, failed, aborted
    signalled,      \* KeyboardInterrupt was caught by main's except clause
    cancelReq,      \* tasks on which cancel() was called and whose CancelledError is
                    \* not yet raised, in the order of the calls
    cancelOrder,    \* the order of main's cancel() calls
    closeLog,       \* teardown calls made so far, each with its outcome
    config_topic,   \* config["kafka_topic"], the topic the KConsumer subscribes to
    prodPc,         \* Producer: none, probe, sleep, cancelled, failed
    probes,         \* probes that have ended, with a response or with an error
    enqueued,       \* every string given to q.put, in order
    q,              \* the asyncio.Queue's items
    unfinished,     \* the queue's count of items put and not marked task_done
    consPc,         \* Consumer: none, start, get, send, sleep, cancelled, failed
    message,        \* the Consumer's local variable `message`
    dequeued,       \* every string q.get returned, in order
    published,      \* every string whose send_and_wait was acknowledged, in order
    kproducer,      \* AIOKafkaProducer: new, started, stopped
    topic,          \* the broker: topic name -> the messages on it
    kconsPc,        \* KConsumer: none, start, next, commit, sleep, cancelled, failed
    kconsumer,      \* AIOKafkaConsumer: new, started, stopped
    offset,         \* number of messages of config_topic the KConsumer has fetched
    handled,        \* per fetched message whose unit of work ended: value and result
    stderr,         \* the offsets the except clause of KConsumer printed an error for
    pgTxn,          \* psycopg2 connection: READY, INTRANS, INERROR
    pgOpen,         \* cursor and connection not yet closed: [cur, con]
    pgPending,      \* rows inserted in the open transaction
    pgRows,         \* committed rows of health_data
    foreign,        \* messages put on the topic by other publishers so far
    dbFaults,       \* database faults injected so far
    past            \* what earlier runs of the process left behind: the number of
                    \* restarts, the probes made and the rows committed before this run

vars == <<mainPc, signalled, cancelReq, cancelOrder, closeLog, config_topic,
          prodPc, probes, enqueued, q, unfinished,
          consPc, message, dequeued, published, kproducer, topic,
          kconsPc, kconsumer, offset, handled, stderr,
          pgTxn, pgOpen, pgPending, pgRows, foreign, dbFaults, past>>

mainVars == <<mainPc, signalled, cancelReq, cancelOrder, closeLog>>
prodVars == <<prodPc, probes, enqueued>>
queueVars == <<q, unfinished>>
consVars == <<consPc, message, dequeued, published>>
sinkVars == <<kconsPc, offset, handled, stderr>>
pgVars == <<pgTxn, pgOpen, pgPending, pgRows, dbFaults>>

NoMessage == [type |-> "none", parses |-> FALSE, members |-> <<>>]

(* ------------------------------ the codec ------------------------------ *)
\* json.dumps of the health_data dict: a str holding an object whose members are
\* the dict's items in insertion order
json_dumps(d) ==
    [type |-> "str", parses |-> TRUE,
     members |-> [i \in 1..Len(HealthKeys) |-> <<HealthKeys[i], d[HealthKeys[i]]>>]]

\* str(message).encode(): the same text as bytes
str_encode(s) == [s EXCEPT !.type = "bytes"]

\* the keys of a parsed object
MemberKeys(m) == {m[i][1] : i \in DOMAIN m}

\* json.loads: the dict of a text that parses (a repeated key keeps its last
\* value); a text that does not parse raises JSONDecodeError
json_loads(b) ==
    IF b.parses
    THEN [raises |-> "none",
          dict |-> [k \in MemberKeys(b.members) |->
                      LET last == CHOOSE i \in DOMAIN b.members :
                                    /\ b.members[i][1] = k
                                    /\ \A j \in DOMAIN b.members :
                                          b.members[j][1] = k => j <= i
                      IN b.members[last][2]]]
    ELSE [raises |-> "JSONDecodeError", dict |-> <<>>]

\* the health_data dict the Producer builds for one response
HealthData(ts, resp, lat) ==
    [timestamp |-> ts, response_data |-> resp.text,
     response_status |-> resp.status, response_time |-> lat]

\* the probes made since the first start of the process
ProbesEver == past.probes + probes

\* datetime.now().timestamp(): a clock that advances from probe to probe
Now == ProbesEver + 1

\* the parameter tuple of the INSERT statement
InsertParams(json_msg) ==
    [timestamp |-> json_msg["timestamp"], data |-> json_msg["response_data"],
     status |-> json_msg["response_status"], response_time |-> json_msg["response_time"]]

\* the messages other publishers may put on the topic: text that is no JSON, and
\* an object without the response_time member
ForeignMessages ==
    {[type |-> "bytes", parses |-> FALSE, members |-> <<>>],
     [type |-> "bytes", parses |-> TRUE,
      members |-> <<<<"timestamp", 0>>, <<"response_data", "x">>, <<"response_status", 200>>>>]}

(* ------------------------------ event loop ----------------------------- *)
\* psycopg2 calls and the closes at the end of main are synchronous: while one
\* coroutine is between two of them no other coroutine runs
Synchronous == kconsPc = "commit" \/ mainPc \in {"close_cur", "close_con"}

\* cancel() schedules the task's wake-up with call_soon; the loop runs its ready
\* callbacks first in first out, so the cancelled tasks are resumed, in the order
\* of the cancel() calls, before any coroutine that was suspended at that time
LoopFree == ~Synchronous /\ cancelReq = <<>>

Running(pc) == pc \notin {"none", "cancelled", "failed"}

Init ==
    /\ mainPc = "start"
    /\ signalled = FALSE
    /\ cancelReq = <<>>
    /\ cancelOrder = <<>>
    /\ closeLog = <<>>
    /\ config_topic \in TopicNames
    /\ prodPc = "none"
    /\ probes = 0
    /\ enqueued = <<>>
    /\ q = <<>>
    /\ unfinished = 0
    /\ consPc = "none"
    /\ message = NoMessage
    /\ dequeued = <<>>
    /\ published = <<>>
    /\ kproducer = "new"
    /\ topic = [t \in TopicNames |-> <<>>]
    /\ kconsPc = "none"
    /\ kconsumer = "new"
    /\ offset = 0
    /\ handled = <<>>
    /\ stderr = <<>>
    /\ pgTxn = "READY"
    /\ pgOpen = [cur |-> TRUE, con |-> TRUE]
    /\ pgPending = <<>>
    /\ pgRows = <<>>
    /\ foreign = 0
    /\ dbFaults = 0
    /\ past = [restarts |-> 0, probes |-> 0, rows |-> 0]


(* ------------------------------- main ---------------------------------- *)
\* Reading config.json or psycopg2.connect fails: main leaves before any task exists
MainStartupFails ==
    /\ mainPc = "start"
    /\ mainPc' = "aborted"
    /\ UNCHANGED <<past, signalled, cancelReq, cancelOrder, closeLog, config_topic,
                   prodVars, queueVars, consVars, kproducer, topic,
                   sinkVars, kconsumer, pgVars, foreign>>

\* The collaborators are built and the three tasks are created; main awaits
\* asyncio.gather(*producers)
MainCreateTasks ==
    /\ mainPc = "start"
    /\ mainPc' = "gather"
    /\ prodPc' = "probe"
    /\ consPc' = "start"
    /\ kconsPc' = "start"
    /\ UNCHANGED <<past, signalled, cancelReq, cancelOrder, closeLog, config_topic,
                   probes, enqueued, queueVars, message, dequeued, published,
                   kproducer, topic, offset, handled, stderr, kconsumer,
                   pgVars, foreign>>

TaskPc(t) ==
    CASE t = "Producer" -> prodPc
      [] t = "Consumer" -> consPc
      [] t = "KConsumer" -> kconsPc

\* a variant of the except clause that forgets the loop over the producers
CancelCallsConsumersOnly == <<"Consumer", "KConsumer">>

\* the cancel() calls of the except clause, in order: the producers, then the consumers
CancelCalls == <<"Producer", "Consumer", "KConsumer">>

\* except KeyboardInterrupt: the interrupt reaches main at its await; every task is
\* asked to cancel (cancel() on a finished task does nothing) and main goes on to
\* the finally clause
Interrupt ==
    /\ mainPc = "gather"
    /\ LoopFree
    /\ signalled' = TRUE
    /\ cancelOrder' = CancelCalls
    /\ cancelReq' = SelectSeq(CancelCalls, LAMBDA t : Running(TaskPc(t)))
    /\ mainPc' = "stop_kproducer"
    /\ UNCHANGED <<past, closeLog, config_topic, prodVars, queueVars, consVars, kproducer,
                   topic, sinkVars, kconsumer, pgVars, foreign>>

\* The Producer task ended with an exception: gather raises it in main, no except
\* clause matches and the finally clause runs with the exception pending
MainGatherRaises ==
    /\ mainPc = "gather"
    /\ LoopFree
    /\ prodPc = "failed"
    /\ mainPc' = "stop_kproducer"
    /\ UNCHANGED <<past, signalled, cancelReq, cancelOrder, closeLog, config_topic,
                   prodVars, queueVars, consVars, kproducer, topic,
                   sinkVars, kconsumer, pgVars, foreign>>

\* where main goes after one close of the finally clause: an exception raised by
\* the close leaves the clause at once
AfterClose(ok, next) == IF ok THEN next ELSE "failed"

\* finally: await kproducer.stop()
MainStopKProducer(ok) ==
    /\ mainPc = "stop_kproducer"
    /\ LoopFree
    /\ closeLog' = Append(closeLog, <<"kproducer.stop", ok>>)
    /\ kproducer' = IF ok THEN "stopped" ELSE kproducer
    /\ mainPc' = AfterClose(ok, "stop_kconsumer")
    /\ UNCHANGED <<past, signalled, cancelReq, cancelOrder, config_topic, prodVars,
                   queueVars, consVars, topic, sinkVars, kconsumer, pgVars, foreign>>

\* finally: await kconsumer.stop()
MainStopKConsumer(ok) ==
    /\ mainPc = "stop_kconsumer"
    /\ LoopFree
    /\ closeLog' = Append(closeLog, <<"kconsumer.stop", ok>>)
    /\ kconsumer' = IF ok THEN "stopped" ELSE kconsumer
    /\ mainPc' = AfterClose(ok, "close_cur")
    /\ UNCHANGED <<past, signalled, cancelReq, cancelOrder, config_topic, prodVars,
                   queueVars, consVars, kproducer, topic, sinkVars, pgVars, foreign>>

\* finally: pg_cur.close()
MainCloseCursor(ok) ==
    /\ mainPc = "close_cur"
    /\ closeLog' = Append(closeLog, <<"pg_cur.close", ok>>)
    /\ pgOpen' = IF ok THEN [pgOpen EXCEPT !.cur = FALSE] ELSE pgOpen
    /\ mainPc' = AfterClose(ok, "close_con")
    /\ UNCHANGED <<past, signalled, cancelReq, cancelOrder, config_topic, prodVars,
                   queueVars, consVars, kproducer, topic, sinkVars, kconsumer,
                   pgTxn, pgPending, pgRows, dbFaults, foreign>>

\* finally: pg_con.close(), the last statement of main: main returns when the
\* interrupt was handled and re-raises the pending exception otherwise
MainCloseConn(ok) ==
    /\ mainPc = "close_con"
    /\ closeLog' = Append(closeLog, <<"pg_con.close", ok>>)
    /\ pgOpen' = IF ok THEN [pgOpen EXCEPT !.con = FALSE] ELSE pgOpen
    /\ pgPending' = IF ok THEN <<>> ELSE pgPending
    /\ mainPc' = AfterClose(ok, IF signalled THEN "done" ELSE "failed")
    /\ UNCHANGED <<past, signalled, cancelReq, cancelOrder, config_topic, prodVars,
                   queueVars, consVars, kproducer, topic, sinkVars, kconsumer,
                   pgTxn, pgRows, dbFaults, foreign>>

\* the sequences that hold each element of S once
Orders(S) == {o \in [1..Cardinality(S) -> S] : \A t \in S : \E i \in DOMAIN o : o[i] = t}

\* asyncio.run(main()): once main has ended, the runner cancels every task left
\* (all_tasks is a set: the order of the calls is not fixed)
RunnerCancelAll ==
    /\ mainPc \in {"done", "failed"}
    /\ cancelReq = <<>>
    /\ ~Synchronous
    /\ \E t \in Tasks : Running(TaskPc(t))
    /\ \E order \in Orders({t \in Tasks : Running(TaskPc(t))}) : cancelReq' = order
    /\ UNCHANGED <<past, mainPc, signalled, cancelOrder, closeLog, config_topic, prodVars,
                   queueVars, consVars, kproducer, topic, sinkVars, kconsumer,
                   pgVars, foreign>>

(* ------------------------------ the queue ------------------------------ *)
\* asyncio.Queue.full(): never, when maxsize <= 0
QueueFull == q_maxsize > 0 /\ Len(q) >= q_maxsize

\* a variant of put_nowait that uses appendleft
QueuePutLeft(items, item) == <<item>> \o items

\* put_nowait: the item goes to the right end of the deque
QueuePut(items, item) == Append(items, item)

\* a variant of get_nowait that reads the right end of the deque
QueueGetItemLast(items) == items[Len(items)]

\* get_nowait: popleft
QueueGetItem(items) == Head(items)
QueueGetRest(items) == Tail(items)

(* ------------------------------ Producer ------------------------------- *)
\* One iteration up to the sleep: the GET answers, health_data is filled and
\* dumped, and q.put adds the string (the queue is never full, so put does not
\* suspend)
ProducerProbeOk(resp, lat) ==
    /\ prodPc = "probe"
    /\ LoopFree
    /\ ProbesEver < MaxProbes
    /\ ~QueueFull
    /\ LET health_str == json_dumps(HealthData(Now, resp, lat))
       IN /\ q' = QueuePut(q, health_str)
          /\ enqueued' = Append(enqueued, health_str)
    /\ unfinished' = unfinished + 1
    /\ probes' = probes + 1
    /\ prodPc' = "sleep"
    /\ UNCHANGED <<past, mainVars, config_topic, consVars, kproducer, topic, sinkVars,
                   kconsumer, pgVars, foreign>>

\* session.get or resp.text raises (connection refused, DNS failure, timeout):
\* nothing in Producer catches it, the coroutine ends with the exception
ProducerProbeFails ==
    /\ prodPc = "probe"
    /\ LoopFree
    /\ ProbesEver < MaxProbes
    /\ probes' = probes + 1
    /\ prodPc' = "failed"
    /\ UNCHANGED <<past, mainVars, config_topic, enqueued, queueVars, consVars, kproducer,
                   topic, sinkVars, kconsumer, pgVars, foreign>>

\* asyncio.sleep(sleep_duration) ends
ProducerWake ==
    /\ prodPc = "sleep"
    /\ LoopFree
    /\ prodPc' = "probe"
    /\ UNCHANGED <<past, mainVars, config_topic, probes, enqueued, queueVars, consVars,
                   kproducer, topic, sinkVars, kconsumer, pgVars, foreign>>

\* CancelledError is raised at the await the Producer is suspended in
ProducerCancelled ==
    /\ ~Synchronous
    /\ cancelReq # <<>>
    /\ Head(cancelReq) = "Producer"
    /\ prodPc \in {"probe", "sleep"}
    /\ prodPc' = "cancelled"
    /\ cancelReq' = Tail(cancelReq)
    /\ UNCHANGED <<past, mainPc, signalled, cancelOrder, closeLog, config_topic, probes,
                   enqueued, queueVars, consVars, kproducer, topic, sinkVars,
                   kconsumer, pgVars, foreign>>

(* ------------------------------ Consumer ------------------------------- *)
\* await kproducer.start(): the connection to the broker is made, or the call
\* raises and the coroutine ends with the exception
ConsumerStart(ok) ==
    /\ consPc = "start"
    /\ LoopFree
    /\ kproducer = "new"
    /\ kproducer' = IF ok THEN "started" ELSE kproducer
    /\ consPc' = IF ok THEN "get" ELSE "failed"
    /\ UNCHANGED <<past, mainVars, config_topic, prodVars, queueVars, message, dequeued,
                   published, topic, sinkVars, kconsumer, pgVars, foreign>>

\* message = await q.get(), the print, and the call of send_and_wait, which
\* suspends until the broker answers; task_done is never called
ConsumerGet ==
    /\ consPc = "get"
    /\ LoopFree
    /\ q # <<>>
    /\ message' = QueueGetItem(q)
    /\ q' = QueueGetRest(q)
    /\ dequeued' = Append(dequeued, QueueGetItem(q))
    /\ consPc' = "send"
    /\ UNCHANGED <<past, mainVars, config_topic, prodVars, unfinished, published, kproducer,
                   topic, sinkVars, kconsumer, pgVars, foreign>>

\* the broker acknowledges: the bytes are on topic 'exercise1'
ConsumerSendAcked ==
    /\ consPc = "send"
    /\ LoopFree
    /\ kproducer = "started"
    /\ topic' = [topic EXCEPT ![SendTopic] = Append(@, str_encode(message))]
    /\ published' = Append(published, message)
    /\ consPc' = "sleep"
    /\ UNCHANGED <<past, mainVars, config_topic, prodVars, queueVars, message, dequeued,
                   kproducer, sinkVars, kconsumer, pgVars, foreign>>

\* send_and_wait raises (the broker refuses, or the producer was stopped):
\* nothing in Consumer catches it
ConsumerSendFails ==
    /\ consPc = "send"
    /\ LoopFree
    /\ consPc' = "failed"
    /\ UNCHANGED <<past, mainVars, config_topic, prodVars, queueVars, message, dequeued,
                   published, kproducer, topic, sinkVars, kconsumer, pgVars, foreign>>

\* asyncio.sleep(0.05) ends
ConsumerWake ==
    /\ consPc = "sleep"
    /\ LoopFree
    /\ consPc' = "get"
    /\ UNCHANGED <<past, mainVars, config_topic, prodVars, queueVars, message, dequeued,
                   published, kproducer, topic, sinkVars, kconsumer, pgVars, foreign>>

\* CancelledError is raised at the await the Consumer is suspended in
ConsumerCancelled ==
    /\ ~Synchronous
    /\ cancelReq # <<>>
    /\ Head(cancelReq) = "Consumer"
    /\ consPc \in {"start", "get", "send", "sleep"}
    /\ consPc' = "cancelled"
    /\ cancelReq' = Tail(cancelReq)
    /\ UNCHANGED <<past, mainPc, signalled, cancelOrder, closeLog, config_topic, prodVars,
                   queueVars, message, dequeued, published, kproducer, topic,
                   sinkVars, kconsumer, pgVars, foreign>>

(* ------------------------------ KConsumer ------------------------------ *)
\* the policy the AIOKafkaConsumer is built with
auto_offset_reset == "earliest"

\* a variant built with auto_offset_reset="latest"
SubscribeOffsetLatest(log) == Len(log)

\* where a consumer without a group and without committed offsets starts in the
\* topic's log: at its first message with "earliest", after its last with "latest"
SubscribeOffset(log) == IF auto_offset_reset = "earliest" THEN 0 ELSE Len(log)

\* await kconsumer.start(): the subscription is positioned
KConsumerStart(ok) ==
    /\ kconsPc = "start"
    /\ LoopFree
    /\ kconsumer = "new"
    /\ kconsumer' = IF ok THEN "started" ELSE kconsumer
    /\ kconsPc' = IF ok THEN "next" ELSE "failed"
    /\ offset' = IF ok THEN SubscribeOffset(topic[config_topic]) ELSE offset
    /\ UNCHANGED <<past, mainVars, config_topic, prodVars, queueVars, consVars, kproducer,
                   topic, handled, stderr, pgVars, foreign>>

\* the next message of the subscription (auto_offset_reset="earliest": from the
\* first message of config["kafka_topic"])
CanFetch ==
    /\ kconsPc = "next"
    /\ LoopFree
    /\ kconsumer = "started"
    /\ offset < Len(topic[config_topic])

NextMsg == topic[config_topic][offset + 1]

\* json.loads(msg.value) and the four subscripts of the parameter tuple: the
\* exception they raise, or "ok"
DecodeResult(value) ==
    LET json_msg == json_loads(value)
    IN IF json_msg.raises # "none" THEN json_msg.raises
       ELSE IF \E i \in DOMAIN HealthKeys : HealthKeys[i] \notin DOMAIN json_msg.dict
            THEN "KeyError"
            ELSE "ok"

\* a variant of the loop body without the try: the exception ends the coroutine
SinkRaise(value, result) ==
    /\ handled' = Append(handled, [value |-> value, result |-> result])
    /\ stderr' = stderr
    /\ kconsPc' = "failed"
    /\ offset' = offset + 1

\* except Exception as e: the error is printed to stderr and the loop goes on
\* with the next message
SinkCatch(value, result) ==
    /\ handled' = Append(handled, [value |-> value, result |-> result])
    /\ stderr' = Append(stderr, offset + 1)
    /\ kconsPc' = "next"
    /\ offset' = offset + 1

\* the message does not decode: the exception is raised before pg_cur.execute
\* is called
KConsumerDecodeFails ==
    /\ CanFetch
    /\ DecodeResult(NextMsg) # "ok"
    /\ SinkCatch(NextMsg, DecodeResult(NextMsg))
    /\ UNCHANGED <<past, mainVars, config_topic, prodVars, queueVars, consVars, kproducer,
                   topic, kconsumer, pgVars, foreign>>

\* what pg_cur.execute raises without reaching the server's executor: the cursor or
\* the connection is closed, or the transaction is in the failed state, which lasts
\* until a rollback (the code calls none)
ExecuteRefusal ==
    IF ~pgOpen.cur \/ ~pgOpen.con THEN "InterfaceError"
    ELSE IF pgTxn = "INERROR" THEN "InFailedSqlTransaction"
    ELSE "ok"

KConsumerExecuteRefused ==
    /\ CanFetch
    /\ DecodeResult(NextMsg) = "ok"
    /\ ExecuteRefusal # "ok"
    /\ SinkCatch(NextMsg, ExecuteRefusal)
    /\ UNCHANGED <<past, mainVars, config_topic, prodVars, queueVars, consVars, kproducer,
                   topic, kconsumer, pgVars, foreign>>

\* the INSERT fails on the server (a constraint, a value the column refuses): the
\* transaction is left in the failed state
KConsumerExecuteFails ==
    /\ CanFetch
    /\ DecodeResult(NextMsg) = "ok"
    /\ ExecuteRefusal = "ok"
    /\ dbFaults < MaxDbFaults
    /\ dbFaults' = dbFaults + 1
    /\ pgTxn' = "INERROR"
    /\ SinkCatch(NextMsg, "DatabaseError")
    /\ UNCHANGED <<past, mainVars, config_topic, prodVars, queueVars, consVars, kproducer,
                   topic, kconsumer, pgOpen, pgPending, pgRows, foreign>>

\* a variant of the loop body without pg_con.commit(): after the INSERT the
\* coroutine goes straight to the sleep
KConsumerExecuteOkNoCommit ==
    /\ CanFetch
    /\ DecodeResult(NextMsg) = "ok"
    /\ ExecuteRefusal = "ok"
    /\ pgPending' = Append(pgPending, InsertParams(json_loads(NextMsg).dict))
    /\ pgTxn' = "INTRANS"
    /\ offset' = offset + 1
    /\ handled' = Append(handled, [value |-> NextMsg, result |-> "committed"])
    /\ kconsPc' = "sleep"
    /\ UNCHANGED <<past, mainVars, config_topic, prodVars, queueVars, consVars, kproducer,
                   topic, kconsumer, stderr, pgOpen, pgRows, dbFaults, foreign>>

\* the INSERT succeeds: the row is in the open transaction; pg_con.commit() is
\* the next statement
KConsumerExecuteOk ==
    /\ CanFetch
    /\ DecodeResult(NextMsg) = "ok"
    /\ ExecuteRefusal = "ok"
    /\ pgPending' = Append(pgPending, InsertParams(json_loads(NextMsg).dict))
    /\ pgTxn' = "INTRANS"
    /\ offset' = offset + 1
    /\ kconsPc' = "commit"
    /\ UNCHANGED <<past, mainVars, config_topic, prodVars, queueVars, consVars, kproducer,
                   topic, kconsumer, handled, stderr, pgOpen, pgRows, dbFaults, foreign>>

\* pg_con.commit() succeeds: the rows of the transaction are durable; the
\* coroutine then awaits asyncio.sleep(0.05)
KConsumerCommitOk ==
    /\ kconsPc = "commit"
    /\ pgRows' = pgRows \o pgPending
    /\ pgPending' = <<>>
    /\ pgTxn' = "READY"
    /\ handled' = Append(handled, [value |-> topic[config_topic][offset], result |-> "committed"])
    /\ kconsPc' = "sleep"
    /\ UNCHANGED <<past, mainVars, config_topic, prodVars, queueVars, consVars, kproducer,
                   topic, kconsumer, offset, stderr, pgOpen, dbFaults, foreign>>

\* a variant in which a commit that raises leaves the transaction open with its
\* inserted row
KConsumerCommitFailsKeepsRow ==
    /\ kconsPc = "commit"
    /\ dbFaults < MaxDbFaults
    /\ dbFaults' = dbFaults + 1
    /\ handled' = Append(handled, [value |-> topic[config_topic][offset], result |-> "CommitError"])
    /\ stderr' = Append(stderr, offset)
    /\ kconsPc' = "next"
    /\ UNCHANGED <<past, mainVars, config_topic, prodVars, queueVars, consVars, kproducer,
                   topic, kconsumer, offset, pgTxn, pgPending, pgOpen, pgRows, foreign>>

\* pg_con.commit() raises: the server has rolled the transaction back and the
\* connection is ready again; the except clause prints the error
KConsumerCommitFails ==
    /\ kconsPc = "commit"
    /\ dbFaults < MaxDbFaults
    /\ dbFaults' = dbFaults + 1
    /\ pgPending' = <<>>
    /\ pgTxn' = "READY"
    /\ handled' = Append(handled, [value |-> topic[config_topic][offset], result |-> "CommitError"])
    /\ stderr' = Append(stderr, offset)
    /\ kconsPc' = "next"
    /\ UNCHANGED <<past, mainVars, config_topic, prodVars, queueVars, consVars, kproducer,
                   topic, kconsumer, offset, pgOpen, pgRows, foreign>>

\* asyncio.sleep(0.05) ends
KConsumerWake ==
    /\ kconsPc = "sleep"
    /\ LoopFree
    /\ kconsPc' = "next"
    /\ UNCHANGED <<past, mainVars, config_topic, prodVars, queueVars, consVars, kproducer,
                   topic, kconsumer, offset, handled, stderr, pgVars, foreign>>

\* CancelledError is raised at the await the KConsumer is suspended in
KConsumerCancelled ==
    /\ ~Synchronous
    /\ cancelReq # <<>>
    /\ Head(cancelReq) = "KConsumer"
    /\ kconsPc \in {"start", "next", "sleep"}
    /\ kconsPc' = "cancelled"
    /\ cancelReq' = Tail(cancelReq)
    /\ UNCHANGED <<past, mainPc, signalled, cancelOrder, closeLog, config_topic, prodVars,
                   queueVars, consVars, kproducer, topic, kconsumer, offset, handled,
                   stderr, pgVars, foreign>>

(* ----------------------------- environment ----------------------------- *)
\* another publisher puts a message on the topic the KConsumer reads
ForeignPublish(m) ==
    /\ mainPc \in {"start", "gather"}
    /\ LoopFree
    /\ foreign < MaxForeign
    /\ foreign' = foreign + 1
    /\ topic' = [topic EXCEPT ![config_topic] = Append(@, m)]
    /\ UNCHANGED <<past, mainVars, config_topic, prodVars, queueVars, consVars, kproducer,
                   sinkVars, kconsumer, pgVars>>

Next ==
    \/ MainStartupFails
    \/ MainCreateTasks
    \/ Interrupt
    \/ MainGatherRaises
    \/ \E ok \in BOOLEAN : MainStopKProducer(ok)
    \/ \E ok \in BOOLEAN : MainStopKConsumer(ok)
    \/ \E ok \in BOOLEAN : MainCloseCursor(ok)
    \/ \E ok \in BOOLEAN : MainCloseConn(ok)
    \/ RunnerCancelAll
    \/ \E resp \in HttpResponses, lat \in Latencies : ProducerProbeOk(resp, lat)
    \/ ProducerProbeFails
    \/ ProducerWake
    \/ ProducerCancelled
    \/ \E ok \in BOOLEAN : ConsumerStart(ok)
    \/ ConsumerGet
    \/ ConsumerSendAcked
    \/ ConsumerSendFails
    \/ ConsumerWake
    \/ ConsumerCancelled
    \/ \E ok \in BOOLEAN : KConsumerStart(ok)
    \/ KConsumerDecodeFails
    \/ KConsumerExecuteRefused
    \/ KConsumerExecuteFails
    \/ KConsumerExecuteOk
    \/ KConsumerCommitOk
    \/ KConsumerCommitFails
    \/ KConsumerWake
    \/ KConsumerCancelled
    \/ \E m \in ForeignMessages : ForeignPublish(m)

Spec == Init /\ [][Next]_vars

(* ------------------------------ restarts ------------------------------- *)
\* The process has ended and is started again (asyncio.run(main()) in a new
\* process): every object of the program is built anew; the configuration file,
\* the topic's log and the committed rows of health_data are what remains
Restart ==
    /\ mainPc \in {"done", "failed", "aborted"}
    /\ cancelReq = <<>>
    /\ \A t \in Tasks : ~Running(TaskPc(t))
    /\ past.restarts < MaxRestarts
    /\ past' = [restarts |-> past.restarts + 1, probes |-> ProbesEver, rows |-> Len(pgRows)]
    /\ mainPc' = "start"
    /\ signalled' = FALSE
    /\ cancelOrder' = <<>>
    /\ closeLog' = <<>>
    /\ prodPc' = "none"
    /\ probes' = 0
    /\ enqueued' = <<>>
    /\ q' = <<>>
    /\ unfinished' = 0
    /\ consPc' = "none"
    /\ message' = NoMessage
    /\ dequeued' = <<>>
    /\ published' = <<>>
    /\ kproducer' = "new"
    /\ kconsPc' = "none"
    /\ kconsumer' = "new"
    /\ offset' = 0
    /\ handled' = <<>>
    /\ stderr' = <<>>
    /\ pgTxn' = "READY"
    /\ pgOpen' = [cur |-> TRUE, con |-> TRUE]
    /\ pgPending' = <<>>
    /\ UNCHANGED <<cancelReq, config_topic, topic, pgRows, foreign, dbFaults>>

NextWithRestart == Next \/ Restart

SpecRestart == Init /\ [][NextWithRestart]_vars

(* ------------------------------- claims -------------------------------- *)

\* C1: what the Consumer has dequeued so far, followed by what is still in the
\* queue, is exactly what the Producer has enqueued so far: same records, same
\* order, none duplicated, dropped or altered.
C1_QueueFifo == dequeued \o q = enqueued

\* C1 witness: two records were enqueued, one is dequeued and one still queued
C1_Witness == Len(enqueued) >= 2 /\ Len(dequeued) >= 1 /\ Len(q) >= 1

\* C2: the queue is bounded: there is a bound k, below the number of probes the
\* Producer issues, that the number of pending records never exceeds (the k+1-th
\* put would suspend rather than add a record).
C2_QueueBounded == \E k \in 1..(MaxProbes - 1) : Len(q) <= k

\* the probes that ended with a transport error
FailedProbes == probes - Len(enqueued)

\* C3: a probe that fails at transport level does not end the Producer: after a
\* failed probe the Producer is still in its loop (or was cancelled by shutdown).
C3_PollerSurvivesFailedProbe == FailedProbes > 0 => prodPc \in {"probe", "sleep", "cancelled"}

\* C4: the number of records enqueued equals the number of probes that have
\* ended, whether they succeeded or failed.
C4_OneRecordPerProbe == Len(enqueued) = probes

\* the messages the KConsumer cannot decode
Malformed(value) == DecodeResult(value) # "ok"

\* the results that come from the database
DbResults == {"DatabaseError", "CommitError", "InFailedSqlTransaction", "InterfaceError"}

\* the rows of the messages of `log` that decode, in order
RowsOfWellFormed(log) ==
    LET wf == SelectSeq(log, LAMBDA h : ~Malformed(h.value))
    IN [i \in DOMAIN wf |-> InsertParams(json_loads(wf[i].value).dict)]

\* C5: a malformed message (no JSON, or a field missing) is isolated: it gets
\* exactly one error on stderr and no row, the KConsumer keeps consuming, and, as
\* long as the database raised no error, the committed rows are exactly the rows of
\* the well-formed messages handled, before and after the malformed one, in order.
C5_SinkFaultIsolation ==
    /\ \A i \in DOMAIN handled :
          /\ handled[i].value = topic[config_topic][i]
          /\ Malformed(handled[i].value) <=> handled[i].result \in {"JSONDecodeError", "KeyError"}
          /\ Malformed(handled[i].value) =>
                /\ Cardinality({j \in DOMAIN stderr : stderr[j] = i}) = 1
                /\ kconsPc # "failed"
    /\ (\A i \in DOMAIN handled : handled[i].result \notin DbResults)
          => pgRows = RowsOfWellFormed(handled)

\* C5 witness: a malformed message was handled between two well-formed ones, both
\* of which are committed
C5_Witness ==
    /\ Len(handled) >= 3
    /\ handled[1].result = "committed"
    /\ Malformed(handled[2].value)
    /\ handled[3].result = "committed"
    /\ Len(pgRows) = 2
    /\ stderr = <<2>>

\* C6: after a message whose insert or commit failed, every later well-formed
\* message that meets no database fault of its own is inserted and committed.
C6_DbFailureIsolated ==
    \A i, j \in DOMAIN handled :
        (/\ i < j
         /\ handled[i].result \in {"DatabaseError", "CommitError"}
         /\ ~Malformed(handled[j].value)
         /\ handled[j].result \notin {"DatabaseError", "CommitError", "InterfaceError"})
        => handled[j].result = "committed"

\* C7: after the shutdown signal, by the time the Consumer is cancelled or main
\* has ended, every record that was enqueued has been published.
C7_DrainBeforeStop ==
    (signalled /\ (consPc = "cancelled" \/ mainPc \in {"done", "failed"}))
        => published = enqueued

C9_AllClosesAttempted ==
    mainPc \in {"done", "failed"} =>
        [i \in DOMAIN closeLog |-> closeLog[i][1]]
            = <<"kproducer.stop", "kconsumer.stop", "pg_cur.close", "pg_con.close">>

\* C10: no probe ends before both broker connections are established, and a
\* connection that cannot be established aborts the process with no probe made.
C10_ConnectBeforeStages ==
    /\ probes > 0 => (kproducer # "new" /\ kconsumer # "new")
    /\ (consPc = "failed" /\ kproducer = "new") => (probes = 0 /\ mainPc = "aborted")
    /\ (kconsPc = "failed" /\ kconsumer = "new") => (probes = 0 /\ mainPc = "aborted")

\* C11: while the pipeline is running, every record the Consumer has dequeued,
\* except one whose send is still awaited, has been published, in dequeue order.
C11_DequeuedIsPublished ==
    /\ Len(published) <= Len(dequeued)
    /\ published = SubSeq(dequeued, 1, Len(published))
    /\ (mainPc = "gather" /\ consPc # "send") => published = dequeued

\* C12: the Consumer never ends because of a publish or connection failure while
\* the Producer goes on probing and enqueuing.
C12_RelayFailureIsFatal ==
    ~(consPc = "failed" /\ prodPc \in {"probe", "sleep"} /\ mainPc = "gather")

\* C14: at most one inserted row is uncommitted, and only while the KConsumer is
\* between the INSERT and its commit: every insert gets its own commit before the
\* next message is fetched, also after a message whose insert or commit failed.
C14_OneUncommittedRow ==
    /\ Len(pgPending) <= 1
    /\ pgPending # <<>> => (kconsPc = "commit" /\ pgTxn = "INTRANS")

\* C14 witness: a row is inserted and not yet committed, after an earlier
\* message whose commit failed
C14_Witness ==
    /\ Len(pgPending) = 1
    /\ kconsPc = "commit"
    /\ \E i \in DOMAIN handled : handled[i].result = "CommitError"

\* the rows of the messages of `log` whose unit of work succeeded, in order
RowsOfCommitted(log) ==
    LET done == SelectSeq(log, LAMBDA h : h.result = "committed")
    IN [i \in DOMAIN done |-> InsertParams(json_loads(done[i].value).dict)]

\* C15: a message whose unit of work failed never yields a stored row: the committed
\* rows are exactly the rows of the messages whose unit succeeded, and a row that
\* is inserted and uncommitted belongs to the message being processed.
C15_FailedMessageSkipped ==
    /\ pgRows = RowsOfCommitted(handled)
    /\ \A r \in {pgPending[k] : k \in DOMAIN pgPending} :
          /\ offset = Len(handled) + 1
          /\ r = InsertParams(json_loads(topic[config_topic][offset]).dict)

\* C15 witness: a message was inserted and its commit failed, and a later message
\* was inserted and committed
C15_Witness ==
    \E i, j \in DOMAIN handled :
        /\ i < j
        /\ handled[i].result = "CommitError"
        /\ handled[j].result = "committed"
        /\ Len(pgRows) = 1

\* the row a record put on the queue stands for
RowOfRecord(health_str) == InsertParams(json_loads(health_str).dict)

\* nothing has failed: no probe, no task, no database call, no foreign message,
\* and main is still awaiting the Producer
NoFailures ==
    /\ mainPc = "gather"
    /\ FailedProbes = 0
    /\ dbFaults = 0
    /\ foreign = 0
    /\ prodPc # "failed" /\ consPc # "failed" /\ kconsPc # "failed"

\* the Consumer has published all that was enqueued and the KConsumer has handled
\* all that is on its topic
Drained ==
    /\ q = <<>>
    /\ published = enqueued
    /\ consPc \in {"get", "sleep"}
    /\ kconsPc \in {"next", "sleep"}
    /\ offset = Len(topic[config_topic])

\* C16: the number of committed rows equals the number of messages the KConsumer
\* processed successfully, and with no failure, once everything enqueued has gone
\* through the pipeline, the committed rows are the rows of the enqueued records,
\* one each, with the record's status and body.
C16_OneRowPerRecord ==
    /\ Len(pgRows) = Len(SelectSeq(handled, LAMBDA h : h.result = "committed"))
    /\ (NoFailures /\ Drained) =>
          pgRows = [i \in DOMAIN enqueued |-> RowOfRecord(enqueued[i])]

\* C17: every record the Consumer has published is on the topic the KConsumer is
\* subscribed to.
C17_SameTopic ==
    \A i \in DOMAIN published :
        \E j \in DOMAIN topic[config_topic] :
            topic[config_topic][j] = str_encode(published[i])

\* C18: the committed rows are rows of enqueued records, in the order in which
\* the Producer enqueued them.
C18_RowsInProbeOrder ==
    /\ \A i \in DOMAIN pgRows :
          \E a \in DOMAIN enqueued : pgRows[i] = RowOfRecord(enqueued[a])
    /\ \A i, j \in DOMAIN pgRows :
          i < j => \E a, b \in DOMAIN enqueued :
                      /\ a < b
                      /\ pgRows[i] = RowOfRecord(enqueued[a])
                      /\ pgRows[j] = RowOfRecord(enqueued[b])

\* C18 witness: two rows are committed
C18_Witness == Len(pgRows) >= 2 /\ Len(enqueued) >= 2

\* C19: when the Consumer has dequeued and published every enqueued record, the
\* queue's count of unfinished items is zero, so that q.join() returns.
C19_JoinCompletes == (q = <<>> /\ published = enqueued) => unfinished = 0

\* C20: main is in its finally clause, or past it, only after the shutdown signal
\* (a startup failure ends main before the try statement).
C20_TeardownOnlyOnSignal ==
    mainPc \in {"stop_kproducer", "stop_kconsumer", "close_cur", "close_con", "done", "failed"}
        => signalled

(* ------------------------------- C13 ----------------------------------- *)
\* the rows committed by the current run of the process
RowsOfThisRun == SubSeq(pgRows, past.rows + 1, Len(pgRows))

\* C13: a Sink that is started, for the first time or again, reads the topic
\* from its earliest retained message: the messages it has handled are the
\* topic's log from the first one on with none skipped, whatever earlier runs
\* stored, and every one it commits is appended as a row of its own after the
\* rows of the earlier runs, so a message stored before the restart is stored
\* again
C13_RestartRedelivers ==
    /\ Len(handled) <= Len(topic[config_topic])
    /\ \A i \in DOMAIN handled : handled[i].value = topic[config_topic][i]
    /\ offset \in {Len(handled), Len(handled) + 1}
    /\ past.rows <= Len(pgRows)
    /\ RowsOfThisRun = RowsOfCommitted(handled)

\* the process has been restarted and a row stored before the restart has been
\* stored a second time by the run after it
C13_Witness ==
    /\ past.restarts >= 1
    /\ \E i \in 1..past.rows : \E j \in (past.rows + 1)..Len(pgRows) :
          /\ pgRows[i] = pgRows[j]
          /\ handled # <<>>
====
